---------------------------- MODULE Spec2Model ----------------------------
(***************************************************************************)
(* HelioCAD (src/HelioCAD.py): the canvas (shape list, pointer-drag state  *)
(* machine, grid snapping, SVG export, .hcad save/load), the plugin        *)
(* registry (load, enable, disable), the settings dialog and the persisted *)
(* preferences.                                                            *)
(*                                                                         *)
(* Numbers: Qt coordinates are doubles; the model uses integers, which     *)
(* stand for the doubles of the same value.  The one irrational quantity,  *)
(* the exported circle radius, is kept as the root of an integer (Sqrt).   *)
(* Optional values (Python's None) are sequences of length 0 or 1.         *)
(***************************************************************************)
EXTENDS Integers, Sequences, FiniteSets, TLC

VARIABLES
    shapes,          \* Canvas.shapes: the Document, a list of (tool, start, end)
    current_tool,    \* Canvas.current_tool
    drawing,         \* Canvas.drawing
    start_point,     \* Canvas.start_point (None or a point)
    end_point,       \* Canvas.end_point (None or a point)
    color_mode,      \* Canvas.color_mode
    plugins,         \* PluginLoader.plugins: name -> module, in insertion order
    plugin_widgets,  \* PluginLoader.plugin_widgets: name -> widget
    tabs,            \* the QTabWidget's pages in tab order (page 0 is the canvas)
    current,         \* QTabWidget.currentWidget()
    settings,        \* the QSettings store: color_mode, enabled_modules
    dlg,             \* the open SettingsDialog (None when no dialog is open)
    nloads,          \* number of modules registered so far (the last one's identity)
    disk,            \* the .hcad file this session wrote (None before the first save)
    begun,           \* history: the tool and the start point of the left press that
                     \* began the shape in progress (None while no shape is in progress)
    out              \* the last handler that ran: its name, inputs and outputs

canvas_vars == <<shapes, current_tool, drawing, start_point, end_point, color_mode>>
plugin_vars == <<plugins, plugin_widgets, tabs, current, settings, dlg, nloads>>
vars == <<shapes, current_tool, drawing, start_point, end_point, color_mode,
          plugins, plugin_widgets, tabs, current, settings, dlg, nloads, disk, begun, out>>

(***************************************************************************)
(* Program constants                                                       *)
(***************************************************************************)
GRID_SIZE == 20

\* the three tool buttons of the toolbar
Tools == {"line", "rectangle", "circle"}

ColorModes == {"light", "dark"}

(***************************************************************************)
(* Bounds of the model                                                     *)
(***************************************************************************)
\* commits are possible while the Document holds fewer shapes than this
MaxShapes == 2

\* pointer coordinates of the snapping specification range over -MaxCoord..MaxCoord
MaxCoord == 50

\* Documents of the codec specification hold at most this many shapes
MaxDocLen == 2

\* a session registers at most this many modules
MaxLoads == 3

\* the plugin folder holds at most this many files
MaxFolder == 3

(***************************************************************************)
(* Values                                                                  *)
(***************************************************************************)
None == <<>>
Some(v) == <<v>>
IsNone(o) == o = <<>>
The(o) == o[1]

\* QPointF(x, y)
QPointF(x, y) == [x |-> x, y |-> y]

\* a member of Canvas.shapes
Shape(tool, start, end) == [tool |-> tool, start |-> start, end |-> end]

Abs(n) == IF n < 0 THEN -n ELSE n
Min(a, b) == IF a <= b THEN a ELSE b

\* the non-negative real whose square is n
Sqrt(n) == [sqrt_of |-> n]

\* the widget of the canvas, page 0 of the tab widget
CanvasWidget == [plugin |-> "canvas", serial |-> 0]

(***************************************************************************)
(* Canvas.snap                                                             *)
(***************************************************************************)
\* Python 3 round(num / den) for den > 0: nearest integer, a tie goes to the
\* even neighbour
PyRound(num, den) ==
    LET f == num \div den
        r == num % den
    IN  IF 2 * r < den THEN f
        ELSE IF 2 * r > den THEN f + 1
        ELSE IF f % 2 = 0 THEN f ELSE f + 1

\* snap with ties rounded up: floor(v / GRID_SIZE + 1/2)
RoundHalfUp(num, den) == (2 * num + den) \div (2 * den)

snap_half_up(point) ==
    QPointF(RoundHalfUp(point.x, GRID_SIZE) * GRID_SIZE,
            RoundHalfUp(point.y, GRID_SIZE) * GRID_SIZE)

snap(point) ==
    QPointF(PyRound(point.x, GRID_SIZE) * GRID_SIZE,
            PyRound(point.y, GRID_SIZE) * GRID_SIZE)

(***************************************************************************)
(* Canvas.rect_from_points, Canvas.draw_shape, Canvas.paintEvent           *)
(***************************************************************************)
rect_from_points(p1, p2) ==
    [x |-> Min(p1.x, p2.x), y |-> Min(p1.y, p2.y),
     w |-> Abs(p2.x - p1.x), h |-> Abs(p2.y - p1.y)]

\* the larger of |x| and |y| in place of their sum
chebyshevLength(p) == IF Abs(p.x) >= Abs(p.y) THEN Abs(p.x) ELSE Abs(p.y)

\* QPointF.manhattanLength(): |x| + |y|
manhattanLength(p) == Abs(p.x) + Abs(p.y)

\* the painter calls draw_shape makes: none for a tool it does not know
draw_shape(tool, start, end) ==
    IF tool = "line" THEN
        << [call |-> "drawLine", p1 |-> start, p2 |-> end] >>
    ELSE IF tool = "rectangle" THEN
        << [call |-> "drawRect", rect |-> rect_from_points(start, end)] >>
    ELSE IF tool = "circle" THEN
        LET radius == manhattanLength(QPointF(start.x - end.x, start.y - end.y))
        IN  << [call |-> "drawEllipse", center |-> start, rx |-> radius, ry |-> radius] >>
    ELSE << >>

\* bool(QPointF) is False for None and for the null point (0, 0)
Truthy(o) == ~IsNone(o) /\ ~(The(o).x = 0 /\ The(o).y = 0)

RECURSIVE draw_shapes(_)
draw_shapes(ss) ==
    IF ss = << >> THEN << >>
    ELSE <<draw_shape(Head(ss).tool, Head(ss).start, Head(ss).end)>> \o draw_shapes(Tail(ss))

\* what paintEvent draws after the grid: the painter calls per committed shape,
\* then those of the shape in progress
paint(ss, tool, is_drawing, sp, ep, mode) ==
    [pen     |-> IF mode = "light" THEN "black" ELSE "white",
     shapes  |-> draw_shapes(ss),
     preview |-> IF is_drawing /\ Truthy(sp) /\ Truthy(ep)
                 THEN draw_shape(tool, The(sp), The(ep)) ELSE << >>]

(***************************************************************************)
(* Canvas.export_svg                                                       *)
(***************************************************************************)
\* the radius of the on-screen circle in place of the Euclidean one
export_radius_manhattan(x1, y1, x2, y2) ==
    Sqrt((Abs(x2 - x1) + Abs(y2 - y1)) * (Abs(x2 - x1) + Abs(y2 - y1)))

export_radius(x1, y1, x2, y2) == Sqrt((x2 - x1) * (x2 - x1) + (y2 - y1) * (y2 - y1))

\* the elements one iteration of the loop adds to the drawing
export_shape(s, stroke_color) ==
    LET x1 == s.start.x
        y1 == s.start.y
        x2 == s.end.x
        y2 == s.end.y
    IN  IF s.tool = "line" THEN
            << [element |-> "line", start |-> <<x1, y1>>, end |-> <<x2, y2>>,
                stroke |-> stroke_color] >>
        ELSE IF s.tool = "rectangle" THEN
            << [element |-> "rect", insert |-> <<Min(x1, x2), Min(y1, y2)>>,
                size |-> <<Abs(x2 - x1), Abs(y2 - y1)>>,
                stroke |-> stroke_color, fill |-> "none"] >>
        ELSE IF s.tool = "circle" THEN
            << [element |-> "circle", center |-> <<x1, y1>>,
                r |-> export_radius(x1, y1, x2, y2),
                stroke |-> stroke_color, fill |-> "none"] >>
        ELSE << >>

RECURSIVE export_elements(_, _)
export_elements(ss, stroke_color) ==
    IF ss = << >> THEN << >>
    ELSE export_shape(Head(ss), stroke_color) \o export_elements(Tail(ss), stroke_color)

\* the elements of the saved drawing, in the order they were added
export_svg(ss, mode) ==
    export_elements(ss, IF mode = "light" THEN "black" ELSE "white")

(***************************************************************************)
(* Canvas.save_hcad, Canvas.load_hcad                                      *)
(*                                                                         *)
(* A file is [kind |-> "garbage"] (not JSON), [kind |-> "number"],         *)
(* [kind |-> "object", keys |-> ...] or [kind |-> "array", items |-> ...]. *)
(* An item of an array is a JSON object, a record holding some of the keys *)
(* tool, start, end, or [notdict |-> TRUE] for any other JSON value.       *)
(* json.dump followed by json.load gives back the lists, strings and       *)
(* floats written, so a file is kept as the value it parses to.            *)
(***************************************************************************)
\* an item written with the end point in both places
save_item_end_twice(s) ==
    [tool |-> s.tool, start |-> <<s.end.x, s.end.y>>, end |-> <<s.end.x, s.end.y>>]

save_item(s) ==
    [tool |-> s.tool, start |-> <<s.start.x, s.start.y>>, end |-> <<s.end.x, s.end.y>>]

RECURSIVE save_items(_)
save_items(ss) ==
    IF ss = << >> THEN << >> ELSE <<save_item(Head(ss))>> \o save_items(Tail(ss))

save_hcad(ss) == [kind |-> "array", items |-> save_items(ss)]

\* QPointF(*v): no argument gives the null point, two give (x, y), any other
\* number of arguments is a TypeError
QPointF_args_ok(v) == Len(v) \in {0, 2}
QPointF_args(v) == IF Len(v) = 0 THEN QPointF(0, 0) ELSE QPointF(v[1], v[2])

\* the exception the loop body raises on item, "none" if it appends a shape
item_raises(item) ==
    IF "notdict" \in DOMAIN item THEN "TypeError"
    ELSE IF "tool" \notin DOMAIN item THEN "KeyError"
    ELSE IF "start" \notin DOMAIN item THEN "KeyError"
    ELSE IF ~QPointF_args_ok(item.start) THEN "TypeError"
    ELSE IF "end" \notin DOMAIN item THEN "KeyError"
    ELSE IF ~QPointF_args_ok(item.end) THEN "TypeError"
    ELSE "none"

load_item(item) == Shape(item.tool, QPointF_args(item.start), QPointF_args(item.end))

\* the loop of load_hcad over the items left, self.shapes being acc
RECURSIVE load_items(_, _)
load_items(items, acc) ==
    IF items = << >> THEN [shapes |-> acc, raised |-> "none"]
    ELSE IF item_raises(Head(items)) # "none"
         THEN [shapes |-> acc, raised |-> item_raises(Head(items))]
         ELSE load_items(Tail(items), Append(acc, load_item(Head(items))))

\* self.shapes after load_hcad on file f, and the exception that left it
load_hcad(old, f) ==
    IF f.kind = "garbage" THEN [shapes |-> old, raised |-> "JSONDecodeError"]
    ELSE IF f.kind = "number" THEN [shapes |-> << >>, raised |-> "TypeError"]
    ELSE IF f.kind = "object" THEN
        IF f.keys = << >> THEN [shapes |-> << >>, raised |-> "none"]
        ELSE [shapes |-> << >>, raised |-> "TypeError"]
    ELSE load_items(f.items, << >>)


(***************************************************************************)
(* Python dicts (insertion ordered): sequences of [key, value] entries     *)
(***************************************************************************)
dict_keys(d) == [i \in 1..Len(d) |-> d[i].key]
dict_has(d, k) == \E i \in 1..Len(d) : d[i].key = k
dict_get(d, k) == d[CHOOSE i \in 1..Len(d) : d[i].key = k].value
dict_set(d, k, v) ==
    IF dict_has(d, k)
    THEN [i \in 1..Len(d) |-> IF d[i].key = k THEN [key |-> k, value |-> v] ELSE d[i]]
    ELSE Append(d, [key |-> k, value |-> v])

Range(seq) == {seq[i] : i \in 1..Len(seq)}

(***************************************************************************)
(* PluginLoader.  A registry is the loader's two tables with the tab       *)
(* widget it attaches to:                                                  *)
(*   [plugins, plugin_widgets, tabs, current, nloads]                      *)
(* A module file is [name, ext, outcome]: its base name, its extension and *)
(* what executing it does.  The widget a registration call returns is new: *)
(* [plugin |-> name, serial |-> number of the load that made it].          *)
(***************************************************************************)
Names == {"a", "b", "c"}

\* what loading a path can do
Outcomes == {"not_file",         \* os.path.isfile(path) is False
             "exec_raises",      \* exec_module raises
             "no_register",      \* the module has no register_plugin
             "register_raises",  \* register_plugin raises
             "returns_none",     \* register_plugin returns no widget
             "returns_widget"}   \* register_plugin returns a new widget

\* str.capitalize() on the plugin names
capitalize(name) ==
    CASE name = "a" -> "A" [] name = "b" -> "B" [] name = "c" -> "C" [] OTHER -> name

load_plugin(reg, file) ==
    IF file.outcome \in {"returns_none", "returns_widget"} THEN
        LET k == reg.nloads + 1
            module == [name |-> file.name, load |-> k]
            widget == [plugin |-> file.name, serial |-> k]
        IN  [reg EXCEPT
                !.nloads = k,
                !.plugins = dict_set(reg.plugins, file.name, module),
                !.plugin_widgets =
                    IF file.outcome = "returns_widget"
                    THEN dict_set(reg.plugin_widgets, file.name, widget)
                    ELSE reg.plugin_widgets]
    ELSE reg

\* the loop left at the first file that does not load
RECURSIVE load_plugins_from_folder_stops(_, _)
load_plugins_from_folder_stops(reg, listing) ==
    IF listing = << >> THEN reg
    ELSE IF Head(listing).ext # ".py"
         THEN load_plugins_from_folder_stops(reg, Tail(listing))
         ELSE IF Head(listing).outcome \in {"returns_none", "returns_widget"}
              THEN load_plugins_from_folder_stops(load_plugin(reg, Head(listing)),
                                                  Tail(listing))
              ELSE reg

\* the loop of load_plugins_from_folder over a directory listing
RECURSIVE load_plugins_from_folder(_, _)
load_plugins_from_folder(reg, listing) ==
    IF listing = << >> THEN reg
    ELSE load_plugins_from_folder(
             IF Head(listing).ext = ".py" THEN load_plugin(reg, Head(listing)) ELSE reg,
             Tail(listing))

tab_for_plugin(reg, name) ==
    \E i \in 1..Len(reg.tabs) :
        /\ dict_has(reg.plugin_widgets, name)
        /\ reg.tabs[i].widget = dict_get(reg.plugin_widgets, name)

\* QTabWidget.addTab: a new last page; the current page stays
addTab(reg, widget, label) ==
    [reg EXCEPT !.tabs = Append(reg.tabs, [widget |-> widget, label |-> label])]

\* QTabWidget.indexOf: the page's index, 0 (Qt: -1) when the widget is no page
indexOf(reg, widget) ==
    IF \E i \in 1..Len(reg.tabs) : reg.tabs[i].widget = widget
    THEN CHOOSE i \in 1..Len(reg.tabs) : reg.tabs[i].widget = widget
    ELSE 0

\* QTabWidget.removeTab: when the current page goes, the page to its right
\* becomes current, or the new last page
removeTab(reg, index) ==
    LET left == [i \in 1..(Len(reg.tabs) - 1) |->
                    IF i < index THEN reg.tabs[i] ELSE reg.tabs[i + 1]]
    IN  [reg EXCEPT
            !.tabs = left,
            !.current = IF reg.current # reg.tabs[index].widget THEN reg.current
                        ELSE IF index <= Len(left) THEN left[index].widget
                        ELSE left[Len(left)].widget]

enable_plugin(reg, name) ==
    IF dict_has(reg.plugin_widgets, name) THEN
        IF ~tab_for_plugin(reg, name)
        THEN addTab(reg, dict_get(reg.plugin_widgets, name), capitalize(name))
        ELSE reg
    ELSE reg

\* the entries of dict d without the one of key k
dict_del(d, k) == SelectSeq(d, LAMBDA e : e.key # k)

\* disable_plugin that also drops the record of the surface
disable_plugin_forgets(reg, name) ==
    IF dict_has(reg.plugin_widgets, name) THEN
        LET index == indexOf(reg, dict_get(reg.plugin_widgets, name))
            left == IF index # 0 THEN removeTab(reg, index) ELSE reg
        IN  [left EXCEPT !.plugin_widgets = dict_del(reg.plugin_widgets, name)]
    ELSE reg

disable_plugin(reg, name) ==
    IF dict_has(reg.plugin_widgets, name) THEN
        LET index == indexOf(reg, dict_get(reg.plugin_widgets, name))
        IN  IF index # 0 THEN removeTab(reg, index) ELSE reg
    ELSE reg

\* settings.value("enabled_modules", []) with the fallback for a stored value
\* that is not a list
enabled_modules_value(store) ==
    IF store.enabled_modules.is_list THEN store.enabled_modules.items ELSE { }

\* the loop enabling every known plugin, whatever is stored
RECURSIVE reconcile_enable_all(_, _, _)
reconcile_enable_all(reg, names, enabled_modules) ==
    IF names = << >> THEN reg
    ELSE reconcile_enable_all(enable_plugin(reg, Head(names)), Tail(names), enabled_modules)

\* the loop of HelioCAD.__init__ over plugins.keys()
RECURSIVE reconcile(_, _, _)
reconcile(reg, names, enabled_modules) ==
    IF names = << >> THEN reg
    ELSE reconcile(IF Head(names) \in enabled_modules
                   THEN enable_plugin(reg, Head(names))
                   ELSE disable_plugin(reg, Head(names)),
                   Tail(names), enabled_modules)

\* the registry HelioCAD.__init__ leaves: the canvas tab, every module of the
\* plugin folder loaded, then each known plugin enabled or disabled
startup(listing, store) ==
    LET reg0 == [plugins |-> << >>, plugin_widgets |-> << >>,
                 tabs |-> << [widget |-> CanvasWidget, label |-> "Core (2D)"] >>,
                 current |-> CanvasWidget, nloads |-> 0]
        reg1 == load_plugins_from_folder(reg0, listing)
    IN  reconcile(reg1, dict_keys(reg1.plugins), enabled_modules_value(store))

registry == [plugins |-> plugins, plugin_widgets |-> plugin_widgets, tabs |-> tabs,
             current |-> current, nloads |-> nloads]

\* the loader's tables and the tab widget become those of registry r
SetRegistry(r) ==
    /\ plugins' = r.plugins
    /\ plugin_widgets' = r.plugin_widgets
    /\ tabs' = r.tabs
    /\ current' = r.current
    /\ nloads' = r.nloads

\* the loader's tables and the tab widget are those of registry r
SetRegistryNow(r) ==
    /\ plugins = r.plugins
    /\ plugin_widgets = r.plugin_widgets
    /\ tabs = r.tabs
    /\ current = r.current
    /\ nloads = r.nloads

(***************************************************************************)
(* The state after HelioCAD() for a plugin folder and a settings store     *)
(***************************************************************************)
Constructed(listing, store) ==
    /\ shapes = << >>
    /\ current_tool = "line"
    /\ drawing = FALSE
    /\ start_point = None
    /\ end_point = None
    /\ color_mode = store.color_mode
    /\ settings = store
    /\ SetRegistryNow(startup(listing, store))
    /\ dlg = None
    /\ disk = None
    /\ begun = None
    /\ out = [op |-> "__init__", enabled_modules |-> enabled_modules_value(store)]


(***************************************************************************)
(* Inputs                                                                  *)
(***************************************************************************)
\* event.position() of the pointer events of a session
PointerPositions == {QPointF(10, 30), QPointF(47, -13)}

\* event.position() of the snapping specification
SnapInputs == {QPointF(x, y) : x \in -MaxCoord..MaxCoord, y \in {-30, -13, 0, 10, 47}}

Buttons == {"left", "right"}

\* .hcad files found on the disk
ExternalFiles ==
    { [kind |-> "array", items |->
          << [tool |-> "line", start |-> <<0, 0>>, end |-> <<20, 20>>],
             [tool |-> "circle", start |-> <<40, 40>>, end |-> <<40, 0>>] >>],
      [kind |-> "array", items |->
          << [tool |-> "circle", start |-> <<0, 0>>, end |-> <<3, 4>>] >>],
      [kind |-> "array", items |->
          << [tool |-> "rectangle", start |-> <<10, 10>>, end |-> <<50, 30>>],
             [tool |-> "line", start |-> <<0, 0>>] >>],
      [kind |-> "array", items |->
          << [tool |-> "triangle", start |-> <<0, 0>>, end |-> <<20, 20>>],
             [tool |-> "line", start |-> <<20, 0>>, end |-> <<0, 20>>] >>],
      [kind |-> "array", items |->
          << [tool |-> "line", start |-> <<5>>, end |-> <<0, 0>>] >>],
      [kind |-> "array", items |->
          << [tool |-> "line", start |-> << >>, end |-> <<20, 20>>] >>],
      [kind |-> "array", items |->
          << [start |-> <<0, 0>>, end |-> <<20, 20>>] >>],
      [kind |-> "array", items |-> << [notdict |-> TRUE] >>],
      [kind |-> "array", items |-> << >>],
      [kind |-> "object", keys |-> <<"tool">>],
      [kind |-> "number"],
      [kind |-> "garbage"] }

(***************************************************************************)
(* Canvas event handlers.  Pointer events reach the canvas while its tab   *)
(* is the current page and no modal dialog is open.                        *)
(***************************************************************************)
CanvasShown == dlg = None /\ current = CanvasWidget

mousePressEvent(button, pos) ==
    /\ CanvasShown
    /\ IF button = "left"
       THEN /\ drawing' = TRUE
            /\ start_point' = Some(snap(pos))
            /\ begun' = Some([tool |-> current_tool, start |-> snap(pos)])
       ELSE UNCHANGED <<drawing, start_point, begun>>
    /\ out' = [op |-> "mousePressEvent", button |-> button, pos |-> pos]
    /\ UNCHANGED <<shapes, current_tool, end_point, color_mode, disk>>
    /\ UNCHANGED plugin_vars

\* the handler without its test of self.drawing
mouseMoveEventUnguarded(pos) ==
    /\ CanvasShown
    /\ end_point' = Some(snap(pos))
    /\ out' = [op |-> "mouseMoveEvent", was_drawing |-> drawing]
    /\ UNCHANGED <<shapes, current_tool, drawing, start_point, color_mode, disk>>
    /\ UNCHANGED plugin_vars
    /\ UNCHANGED begun

mouseMoveEvent(pos) ==
    /\ CanvasShown
    /\ IF drawing
       THEN end_point' = Some(snap(pos))
       ELSE UNCHANGED end_point
    /\ out' = [op |-> "mouseMoveEvent", was_drawing |-> drawing]
    /\ UNCHANGED <<shapes, current_tool, drawing, start_point, color_mode, disk>>
    /\ UNCHANGED plugin_vars
    /\ UNCHANGED begun

\* the handler with the Document replaced by the new shape in place of the append
mouseReleaseEventReplaces(pos) ==
    /\ CanvasShown
    /\ drawing => Len(shapes) < MaxShapes
    /\ IF drawing
       THEN /\ shapes' = << Shape(current_tool, The(start_point), snap(pos)) >>
            /\ drawing' = FALSE
            /\ start_point' = None
            /\ end_point' = None
            /\ begun' = None
       ELSE UNCHANGED <<shapes, drawing, start_point, end_point, begun>>
    /\ out' = [op |-> "mouseReleaseEvent", was_drawing |-> drawing]
    /\ UNCHANGED <<current_tool, color_mode, disk>>
    /\ UNCHANGED plugin_vars

\* the handler does not look at the button released
mouseReleaseEvent(pos) ==
    /\ CanvasShown
    /\ drawing => Len(shapes) < MaxShapes
    /\ IF drawing
       THEN /\ shapes' = Append(shapes, Shape(current_tool, The(start_point), snap(pos)))
            /\ drawing' = FALSE
            /\ start_point' = None
            /\ end_point' = None
            /\ begun' = None
       ELSE UNCHANGED <<shapes, drawing, start_point, end_point, begun>>
    /\ out' = [op |-> "mouseReleaseEvent", was_drawing |-> drawing]
    /\ UNCHANGED <<current_tool, color_mode, disk>>
    /\ UNCHANGED plugin_vars

paintEvent ==
    /\ current = CanvasWidget
    /\ out' = [op |-> "paintEvent",
               painted |-> paint(shapes, current_tool, drawing, start_point,
                                 end_point, color_mode)]
    /\ UNCHANGED <<canvas_vars, disk>>
    /\ UNCHANGED plugin_vars
    /\ UNCHANGED begun

(***************************************************************************)
(* Toolbar slots of the main window                                        *)
(***************************************************************************)
set_tool(tool) ==
    /\ dlg = None
    /\ IF current = CanvasWidget
       THEN current_tool' = tool
       ELSE UNCHANGED current_tool
    /\ out' = [op |-> "set_tool", tool |-> tool]
    /\ UNCHANGED <<shapes, drawing, start_point, end_point, color_mode, disk>>
    /\ UNCHANGED plugin_vars
    /\ UNCHANGED begun

\* HelioCAD.export_svg; the file dialog gave a path (chosen) or was cancelled
HelioCAD_export_svg(chosen) ==
    /\ dlg = None
    /\ out' = IF current = CanvasWidget /\ chosen
              THEN [op |-> "export_svg", saved |-> TRUE,
                    elements |-> export_svg(shapes, settings.color_mode)]
              ELSE [op |-> "export_svg", saved |-> FALSE]
    /\ UNCHANGED <<canvas_vars, disk>>
    /\ UNCHANGED plugin_vars
    /\ UNCHANGED begun

save_file(chosen) ==
    /\ dlg = None
    /\ IF current = CanvasWidget /\ chosen
       THEN disk' = Some(save_hcad(shapes))
       ELSE UNCHANGED disk
    /\ out' = [op |-> "save_file", saved |-> (current = CanvasWidget /\ chosen)]
    /\ UNCHANGED canvas_vars
    /\ UNCHANGED plugin_vars
    /\ UNCHANGED begun

\* HelioCAD.load_file with the file dialog's choice f; an exception of
\* Canvas.load_hcad leaves the slot
load_file(f) ==
    /\ dlg = None
    /\ current = CanvasWidget
    /\ LET r == load_hcad(shapes, f)
       IN  /\ shapes' = r.shapes
           /\ out' = [op |-> "load_file", file |-> f, raised |-> r.raised]
    /\ UNCHANGED <<current_tool, drawing, start_point, end_point, color_mode, disk>>
    /\ UNCHANGED plugin_vars
    /\ UNCHANGED begun

load_file_cancelled ==
    /\ dlg = None
    /\ out' = [op |-> "load_file_cancelled"]
    /\ UNCHANGED <<canvas_vars, disk>>
    /\ UNCHANGED plugin_vars
    /\ UNCHANGED begun

(***************************************************************************)
(* Specifications of the canvas                                            *)
(***************************************************************************)
NoPlugins == << >>

DefaultStore(mode) ==
    [color_mode |-> mode, enabled_modules |-> [is_list |-> TRUE, items |-> { }]]

\* a first session on the canvas: no plugin folder, nothing stored in the
\* settings, the files of ExternalFiles on the disk
InitCanvas == Constructed(NoPlugins, DefaultStore("light"))

NextCanvas ==
    \/ \E b \in Buttons, pos \in PointerPositions : mousePressEvent(b, pos)
    \/ \E pos \in PointerPositions : mouseMoveEvent(pos)
    \/ \E pos \in PointerPositions : mouseReleaseEvent(pos)
    \/ paintEvent
    \/ \E tool \in Tools : set_tool(tool)
    \/ \E chosen \in BOOLEAN : HelioCAD_export_svg(chosen)
    \/ \E f \in ExternalFiles : load_file(f)
    \/ load_file_cancelled

SpecCanvas == InitCanvas /\ [][NextCanvas]_vars

(***************************************************************************)
(* Specification of the file codec: any Document of up to MaxDocLen shapes *)
(* over CodecPoints, saved, loaded back, exported and painted              *)
(***************************************************************************)
CodecPoints == {QPointF(0, 0), QPointF(3, 4), QPointF(-20, 40)}

CodecShapes == {Shape(t, p, q) : t \in Tools, p \in CodecPoints, q \in CodecPoints}

Documents == UNION {[1..n -> CodecShapes] : n \in 0..MaxDocLen}

InitCodec ==
    \E D \in Documents, mode \in ColorModes :
        /\ shapes = D
        /\ current_tool = "line"
        /\ drawing = FALSE
        /\ start_point = None
        /\ end_point = None
        /\ color_mode = mode
        /\ settings = DefaultStore(mode)
        /\ SetRegistryNow(startup(NoPlugins, DefaultStore(mode)))
        /\ dlg = None
        /\ disk = None
        /\ begun = None
        /\ out = [op |-> "document"]

NextCodec ==
    \/ \E chosen \in BOOLEAN : save_file(chosen)
    \/ \E f \in Range(disk) : load_file(f)
    \/ \E chosen \in BOOLEAN : HelioCAD_export_svg(chosen)
    \/ paintEvent

SpecCodec == InitCodec /\ [][NextCodec]_vars

\* snapping: left presses anywhere in SnapInputs
NextSnap == \E pos \in SnapInputs : mousePressEvent("left", pos)

SpecSnap == InitCanvas /\ [][NextSnap]_vars


(***************************************************************************)
(* SettingsDialog and the slots of the main window that reach the plugins  *)
(*                                                                         *)
(* dlg.exec() runs the dialog's own event loop: between open_settings and  *)
(* accept or reject the user toggles checkboxes and picks a color mode,    *)
(* and the main window takes no input.                                     *)
(***************************************************************************)
\* SettingsDialog.__init__: the combo shows the stored color mode, one
\* checkbox per known plugin, checked when its name is in enabled_modules
RECURSIVE make_checks(_, _)
make_checks(names, enabled_modules) ==
    IF names = << >> THEN << >>
    ELSE <<[key |-> Head(names), value |-> Head(names) \in enabled_modules]>>
             \o make_checks(Tail(names), enabled_modules)

SettingsDialog(store, reg) ==
    [color_combo   |-> IF store.color_mode \in ColorModes THEN store.color_mode ELSE "light",
     module_checks |-> make_checks(dict_keys(reg.plugins), enabled_modules_value(store))]

\* SettingsDialog.get_settings
get_settings(d) ==
    [color_mode |-> d.color_combo,
     enabled_modules |->
         [is_list |-> TRUE,
          items |-> {d.module_checks[i].key : i \in
                        {j \in 1..Len(d.module_checks) : d.module_checks[j].value}}]]

\* SettingsDialog.toggle_module(name, state)
toggle_module(reg, name, checked) ==
    IF checked THEN enable_plugin(reg, name) ELSE disable_plugin(reg, name)

open_settings ==
    /\ dlg = None
    /\ dlg' = Some(SettingsDialog(settings, registry))
    /\ out' = [op |-> "open_settings"]
    /\ UNCHANGED <<canvas_vars, disk, begun>>
    /\ UNCHANGED <<plugins, plugin_widgets, tabs, current, settings, nloads>>

\* the user clicks the checkbox of name: stateChanged calls toggle_module
click_checkbox(name) ==
    /\ dlg # None
    /\ dict_has(The(dlg).module_checks, name)
    /\ LET checked == ~dict_get(The(dlg).module_checks, name)
       IN  /\ dlg' = Some([The(dlg) EXCEPT
                              !.module_checks = dict_set(@, name, checked)])
           /\ SetRegistry(toggle_module(registry, name, checked))
           /\ out' = [op |-> "toggle_module", name |-> name, checked |-> checked]
    /\ UNCHANGED <<canvas_vars, disk, begun, settings>>

pick_color(mode) ==
    /\ dlg # None
    /\ The(dlg).color_combo # mode
    /\ dlg' = Some([The(dlg) EXCEPT !.color_combo = mode])
    /\ out' = [op |-> "pick_color"]
    /\ UNCHANGED <<canvas_vars, disk, begun>>
    /\ UNCHANGED <<plugins, plugin_widgets, tabs, current, settings, nloads>>

\* OK: open_settings stores the dialog's settings and applies the color mode
accept ==
    /\ dlg # None
    /\ settings' = get_settings(The(dlg))
    /\ color_mode' = The(dlg).color_combo
    /\ dlg' = None
    /\ out' = [op |-> "accept"]
    /\ UNCHANGED <<shapes, current_tool, drawing, start_point, end_point, disk, begun>>
    /\ UNCHANGED <<plugins, plugin_widgets, tabs, current, nloads>>

\* Cancel: open_settings does nothing more
reject ==
    /\ dlg # None
    /\ dlg' = None
    /\ out' = [op |-> "reject"]
    /\ UNCHANGED <<canvas_vars, disk, begun>>
    /\ UNCHANGED <<plugins, plugin_widgets, tabs, current, settings, nloads>>

\* HelioCAD.load_plugin_dialog with the file the dialog gave
load_plugin_dialog(file) ==
    /\ dlg = None
    /\ nloads < MaxLoads
    /\ SetRegistry(load_plugin(registry, file))
    /\ out' = IF file.outcome \in {"returns_none", "returns_widget"}
              THEN [op |-> "load_plugin", name |-> file.name, outcome |-> file.outcome]
              ELSE [op |-> "load_plugin", outcome |-> file.outcome]
    /\ UNCHANGED <<canvas_vars, disk, begun, settings, dlg>>

(***************************************************************************)
(* Specification of the plugin registry: a session started on any plugin   *)
(* folder over Names and any stored settings, the canvas page staying the  *)
(* current one                                                             *)
(***************************************************************************)
FolderFiles ==
    {[name |-> n, ext |-> ".py", outcome |-> o] : n \in Names, o \in Outcomes}
        \cup {[name |-> n, ext |-> ".txt", outcome |-> "not_file"] : n \in Names}

\* os.listdir: the files of the folder in any order; no two .py files of a
\* folder have the same base name
FolderListings ==
    UNION {{l \in [1..n -> FolderFiles] :
               \A i, j \in 1..n : i # j => l[i].name # l[j].name} : n \in 0..MaxFolder}

Stores ==
    {[color_mode |-> m, enabled_modules |-> e] :
        m \in ColorModes,
        e \in {[is_list |-> TRUE, items |-> ns] : ns \in SUBSET Names}
                  \cup {[is_list |-> FALSE, items |-> { }]}}

InitPlugins ==
    \E listing \in FolderListings, store \in Stores : Constructed(listing, store)

NextPlugins ==
    \/ \E n \in Names, o \in Outcomes :
           load_plugin_dialog([name |-> n, ext |-> ".py", outcome |-> o])
    \/ open_settings
    \/ \E n \in Names : click_checkbox(n)
    \/ \E mode \in ColorModes : pick_color(mode)
    \/ accept
    \/ reject

SpecPlugins == InitPlugins /\ [][NextPlugins]_vars

\* the plugin registry of a first session: an empty plugin folder, nothing
\* stored in the settings, every plugin loaded by hand
NextRegistry ==
    \/ \E n \in Names, o \in Outcomes :
           load_plugin_dialog([name |-> n, ext |-> ".py", outcome |-> o])
    \/ open_settings
    \/ \E n \in Names : click_checkbox(n)
    \/ accept
    \/ reject

SpecRegistry == InitCanvas /\ [][NextRegistry]_vars

(***************************************************************************)
(* Specification of an editing session: drawing, the toolbar, save, load   *)
(* of what was saved, export and the color mode of the settings dialog     *)
(***************************************************************************)
\* where the pointer is pressed, and where it moves and is released
SessionPress == {QPointF(10, 30)}
SessionDrag == {QPointF(47, -13)}

NextSession ==
    \/ \E b \in Buttons, pos \in SessionPress : mousePressEvent(b, pos)
    \/ \E pos \in SessionDrag : mouseMoveEvent(pos)
    \/ \E pos \in SessionDrag : mouseReleaseEvent(pos)
    \/ \E tool \in Tools : set_tool(tool)
    \/ \E chosen \in BOOLEAN : HelioCAD_export_svg(chosen)
    \/ \E chosen \in BOOLEAN : save_file(chosen)
    \/ \E f \in Range(disk) : load_file(f)
    \/ open_settings
    \/ \E mode \in ColorModes : pick_color(mode)
    \/ accept
    \/ reject

SpecSession == InitCanvas /\ [][NextSession]_vars

(***************************************************************************)
(* Specification of plugin loading: a session started on a plugin folder   *)
(* whose listing is on record, followed by manual loads                    *)
(***************************************************************************)
InitFolder ==
    \E listing \in FolderListings, store \in Stores :
        /\ store.color_mode = "light"
        /\ shapes = << >>
        /\ current_tool = "line"
        /\ drawing = FALSE
        /\ start_point = None
        /\ end_point = None
        /\ color_mode = store.color_mode
        /\ settings = store
        /\ SetRegistryNow(startup(listing, store))
        /\ dlg = None
        /\ disk = None
        /\ begun = None
        /\ out = [op |-> "__init__", enabled_modules |-> enabled_modules_value(store),
                  listing |-> listing]

NextFolder ==
    \E n \in Names, o \in Outcomes :
        load_plugin_dialog([name |-> n, ext |-> ".py", outcome |-> o])

SpecFolder == InitFolder /\ [][NextFolder]_vars

(***************************************************************************)
(* Properties of the canvas and the file codec                             *)
(***************************************************************************)
Max(a, b) == IF a >= b THEN a ELSE b

IsMissingField(item) ==
    /\ "notdict" \notin DOMAIN item
    /\ {"tool", "start", "end"} \ DOMAIN item # { }

HasMalformedRecord(f) ==
    /\ f.kind = "array"
    /\ \E i \in 1..Len(f.items) : IsMissingField(f.items[i])

\* C1: a load whose input holds a record that lacks a required field fails and
\* leaves the Document as it was before the call (no clearing, no partial load).
C1_MalformedLoadKeepsDocument ==
    [][\A f \in ExternalFiles :
          (load_file(f) /\ HasMalformedRecord(f))
              => (out'.raised # "none" /\ shapes' = shapes)]_vars

\* C4: for every Document D of line, rectangle and circle shapes, loading the
\* file that save wrote for D gives a Document equal to D.
C4_SaveLoadRoundTrip ==
    [][\A f \in Range(disk) :
          (load_file(f) /\ f = save_hcad(shapes) /\ \A i \in 1..Len(shapes) :
                                                       shapes[i].tool \in Tools)
              => (out'.raised = "none" /\ shapes' = shapes)]_vars

\* C4 witness: a Document of two different shapes was saved and loaded back.
C4_Witness ==
    /\ out.op = "load_file"
    /\ out.raised = "none"
    /\ Len(shapes) = 2
    /\ shapes[1] # shapes[2]
    /\ shapes[1].start # shapes[1].end
    /\ disk = Some(out.file)

\* C5: while Idle, mouseMoveEvent and mouseReleaseEvent change neither the
\* Document, nor the draw state, nor the start and end points.
C5_IdleMoveReleaseNoOp ==
    [][(~drawing /\ \E pos \in PointerPositions :
                        mouseMoveEvent(pos) \/ mouseReleaseEvent(pos))
          => UNCHANGED <<shapes, drawing, start_point, end_point>>]_vars

\* C5 witness: a move and a release arrived while Idle with a Document drawn.
C5_Witness ==
    /\ out.op \in {"mouseMoveEvent", "mouseReleaseEvent"}
    /\ ~out.was_drawing
    /\ shapes # << >>
    /\ ~drawing

IsGridAligned(p) == p.x % GRID_SIZE = 0 /\ p.y % GRID_SIZE = 0

\* C6: every start and end coordinate of every shape of the Document is a
\* multiple of the grid size, after any sequence of draws and loads.
C6_DocumentGridAligned ==
    \A i \in 1..Len(shapes) :
        IsGridAligned(shapes[i].start) /\ IsGridAligned(shapes[i].end)

\* m is a multiple of the grid size nearest to c
IsNearestMultiple(c, m) == m % GRID_SIZE = 0 /\ 2 * Abs(c - m) <= GRID_SIZE
IsTie(c, m) == 2 * Abs(c - m) = GRID_SIZE

PressSnapped(Rule(_, _)) ==
    (out.op = "mousePressEvent" /\ out.button = "left")
        => /\ ~IsNone(start_point)
           /\ Rule(out.pos.x, The(start_point).x)
           /\ Rule(out.pos.y, The(start_point).y)

TiesToLarger(c, m) == IsNearestMultiple(c, m) /\ (IsTie(c, m) => m > c)
TiesToEven(c, m) ==
    IsNearestMultiple(c, m) /\ (IsTie(c, m) => (m \div GRID_SIZE) % 2 = 0)

\* C7 as stated: snap rounds each coordinate to the nearest multiple of the grid
\* size, a coordinate halfway between two multiples to the larger one.
C7_SnapTiesToLarger == PressSnapped(TiesToLarger)

\* C7 amended: snap rounds each coordinate to the nearest multiple of the grid
\* size, a coordinate halfway between two multiples to the even multiple of the
\* grid size (10 -> 0, 30 -> 40, 50 -> 40).
C7_SnapTiesToEven == PressSnapped(TiesToEven)

\* C7 witness: a press at a tie in both coordinates, x = 30 snapped up to 40 and
\* y = 10 snapped down to 0.
C7_Witness ==
    /\ out.op = "mousePressEvent"
    /\ out.button = "left"
    /\ out.pos = QPointF(30, 10)
    /\ start_point = Some(QPointF(40, 0))

\* every ellipse paintEvent draws for a circle has the radius Metric gives
PaintedRadius(Metric(_, _)) ==
    out.op = "paintEvent" =>
        /\ \A i \in 1..Len(shapes) :
              shapes[i].tool = "circle" =>
                  LET r == Metric(shapes[i].start.x - shapes[i].end.x,
                                  shapes[i].start.y - shapes[i].end.y)
                  IN  out.painted.shapes[i] =
                          << [call |-> "drawEllipse", center |-> shapes[i].start,
                              rx |-> r, ry |-> r] >>
        /\ (drawing /\ current_tool = "circle" /\ Truthy(start_point) /\ Truthy(end_point))
              => LET r == Metric(The(start_point).x - The(end_point).x,
                                 The(start_point).y - The(end_point).y)
                 IN  out.painted.preview =
                         << [call |-> "drawEllipse", center |-> The(start_point),
                             rx |-> r, ry |-> r] >>

MaxAxis(dx, dy) == Max(Abs(dx), Abs(dy))
SumAxes(dx, dy) == Abs(dx) + Abs(dy)

\* C8 as stated: the on-screen radius of a circle is max(|dx|, |dy|) of
\* (dx, dy) = start - end; start (0,0), end (3,4) gives 4.
C8_PreviewRadiusMaxAxis == PaintedRadius(MaxAxis)

\* C8 amended: the on-screen radius of a circle is |dx| + |dy| of
\* (dx, dy) = start - end; start (0,0), end (3,4) gives 7.
C8_PreviewRadiusManhattan == PaintedRadius(SumAxes)

\* C8 witness: the circle (0,0)-(3,4) was painted with radius 7 while a circle
\* in progress was previewed.
C8_Witness ==
    /\ out.op = "paintEvent"
    /\ \E i \in 1..Len(shapes) :
          /\ shapes[i] = Shape("circle", QPointF(0, 0), QPointF(3, 4))
          /\ out.painted.shapes[i][1].rx = 7
    /\ drawing
    /\ current_tool = "circle"
    /\ out.painted.preview # << >>
    /\ out.painted.preview[1].rx > 0

IsCircleShape(s) == s.tool = "circle"
IsCircleElement(e) == e.element = "circle"

\* C9: the exported circle of a shape with start s and end e has center s and a
\* radius r with r * r = dx * dx + dy * dy; start (0,0), end (3,4) gives 5.
C9_ExportRadiusEuclidean ==
    (out.op = "export_svg" /\ out.saved) =>
        LET cs == SelectSeq(shapes, IsCircleShape)
            es == SelectSeq(out.elements, IsCircleElement)
        IN  /\ Len(es) = Len(cs)
            /\ \A i \in 1..Len(cs) :
                  LET dx == cs[i].end.x - cs[i].start.x
                      dy == cs[i].end.y - cs[i].start.y
                  IN  /\ es[i].center = <<cs[i].start.x, cs[i].start.y>>
                      /\ es[i].r.sqrt_of = dx * dx + dy * dy
                      /\ (cs[i].start = QPointF(0, 0) /\ cs[i].end = QPointF(3, 4))
                            => es[i].r = Sqrt(5 * 5)

\* C9 witness: the circle (0,0)-(3,4) was exported with radius 5.
C9_Witness ==
    /\ out.op = "export_svg"
    /\ out.saved
    /\ shapes = << Shape("circle", QPointF(0, 0), QPointF(3, 4)) >>
    /\ out.elements[1].r = Sqrt(25)
    /\ out.elements[1].center = <<0, 0>>

ElementOf(s) ==
    CASE s.tool = "line" -> "line"
      [] s.tool = "rectangle" -> "rect"
      [] s.tool = "circle" -> "circle"
      [] OTHER -> "none"

\* C10: export emits exactly one element per shape of the Document, the i-th
\* element being that of the i-th shape.
C10_ExportOneElementPerShape ==
    (out.op = "export_svg" /\ out.saved) =>
        /\ Len(out.elements) = Len(shapes)
        /\ \A i \in 1..Len(shapes) : out.elements[i].element = ElementOf(shapes[i])

HasUnknownTool(f) ==
    /\ f.kind = "array"
    /\ \E i \in 1..Len(f.items) :
          /\ "tool" \in DOMAIN f.items[i]
          /\ f.items[i].tool \notin Tools

\* C11: a load whose input holds a record with a tool string other than "line",
\* "rectangle" and "circle" fails with an error, and so every shape of the
\* Document has one of these three tools after any sequence of draws and loads.
C11_UnknownToolRejected ==
    /\ (out.op = "load_file" /\ HasUnknownTool(out.file)) => out.raised # "none"
    /\ \A i \in 1..Len(shapes) : shapes[i].tool \in Tools

\* C15: the shape a commit appends carries the tool that was active at the left
\* press that began it and the snapped start point that press recorded,
\* whatever set_tool calls came between the press and the release.
C15_CommitCarriesBeginTool ==
    [][\A pos \in PointerPositions :
          (drawing /\ mouseReleaseEvent(pos)) =>
              /\ shapes'[Len(shapes')].tool = The(begun).tool
              /\ shapes'[Len(shapes')].start = The(begun).start]_vars

\* C17: a commit in the Drawing state extends the Document by one shape at the
\* end and leaves the shapes before it and their order as they were; press,
\* move, set_tool, set_color_mode (OK in the settings dialog), save and export
\* leave the Document as it was; and the Document changes by a commit or a load
\* only.
C17_DocumentChangesByCommitOrLoad ==
    [][/\ \A pos \in SessionDrag :
             (drawing /\ mouseReleaseEvent(pos)) =>
                 /\ Len(shapes') = Len(shapes) + 1
                 /\ SubSeq(shapes', 1, Len(shapes)) = shapes
       /\ (\/ \E b \in Buttons, pos \in SessionPress : mousePressEvent(b, pos)
           \/ \E pos \in SessionDrag : mouseMoveEvent(pos)
           \/ \E tool \in Tools : set_tool(tool)
           \/ accept
           \/ \E chosen \in BOOLEAN : save_file(chosen)
           \/ \E chosen \in BOOLEAN : HelioCAD_export_svg(chosen)) => shapes' = shapes
       /\ shapes' # shapes =>
             \/ \E pos \in SessionDrag : drawing /\ mouseReleaseEvent(pos)
             \/ \E f \in Range(disk) : load_file(f)]_vars

\* C17 witness: a second shape was committed after the first, of another tool,
\* with a save and a change of the color mode before the commit.
C17_Witness ==
    /\ out.op = "mouseReleaseEvent"
    /\ out.was_drawing
    /\ Len(shapes) = 2
    /\ shapes[1].tool # shapes[2].tool
    /\ disk = Some(save_hcad(<<shapes[1]>>))
    /\ color_mode = "dark"


(***************************************************************************)
(* Properties of the plugin registry                                       *)
(***************************************************************************)
\* the plugins that have a tab in the tab container (page 1 is the canvas)
AttachedNames == {tabs[i].widget.plugin : i \in 2..Len(tabs)}

\* the known plugins with a UI surface
SurfaceNames == Range(dict_keys(plugins)) \cap Range(dict_keys(plugin_widgets))

\* n's recorded surface is a page of the tab container
IsAttached(n) ==
    /\ dict_has(plugin_widgets, n)
    /\ \E i \in 2..Len(tabs) : tabs[i].widget = dict_get(plugin_widgets, n)

\* C2: whenever no settings dialog is open, the plugins with a tab attached are
\* the loaded plugins with a UI surface whose name is in the stored
\* enabled_modules.
C2_TabsMatchPersistedSelection ==
    dlg = None =>
        AttachedNames = SurfaceNames \cap enabled_modules_value(settings)

\* C3: after startup, a loaded plugin with a UI surface has its tab attached
\* exactly if its name is in the stored enabled_modules, and no other tab is
\* attached.
C3_StartupReconciliation ==
    out.op = "__init__" =>
        /\ \A n \in SurfaceNames : IsAttached(n) <=> n \in enabled_modules_value(settings)
        /\ AttachedNames = SurfaceNames \cap enabled_modules_value(settings)
        /\ Len(tabs) = 1 + Cardinality(AttachedNames)

\* C3 witness: a, b and c loaded with a surface, enabled_modules = {b}, and
\* exactly b's tab attached.
C3_Witness ==
    /\ out.op = "__init__"
    /\ SurfaceNames = {"a", "b", "c"}
    /\ enabled_modules_value(settings) = {"b"}
    /\ AttachedNames = {"b"}
    /\ IsAttached("b")

\* the pages of registry reg that hold a widget made by plugin n
TabsOf(reg, n) == {i \in 2..Len(reg.tabs) : reg.tabs[i].widget.plugin = n}

\* C12: after enable_plugin(name) on a known plugin with a UI surface the tab
\* container holds exactly one tab of that plugin and one more call changes
\* nothing; disable_plugin(name) on a plugin that has no tab attached, is unknown
\* or has no surface leaves the tab container and the two tables unchanged.
C12_EnableIdempotentDisableNoOp ==
    /\ (out.op = "toggle_module" /\ out.checked /\ dict_has(plugin_widgets, out.name)) =>
          /\ Cardinality(TabsOf(registry, out.name)) = 1
          /\ enable_plugin(registry, out.name) = registry
    /\ \A n \in Names :
          (\/ TabsOf(registry, n) = { }
           \/ ~dict_has(plugins, n)
           \/ ~dict_has(plugin_widgets, n)) => disable_plugin(registry, n) = registry

\* C13: after disable_plugin(name) on a known plugin with a UI surface, no tab
\* of that plugin is attached to the tab container, whatever loads, enables and
\* disables came before (a second load of the name while it is enabled too).
C13_DisableDetaches ==
    (/\ out.op = "toggle_module"
     /\ ~out.checked
     /\ dict_has(plugins, out.name)
     /\ dict_has(plugin_widgets, out.name)) => TabsOf(registry, out.name) = { }

\* the load that just succeeded was of a module named n
LoadedNow(n) ==
    /\ out.op = "load_plugin"
    /\ out.outcome \in {"returns_none", "returns_widget"}
    /\ out.name = n

\* C16: after a successful load of a module named n, the record of n is that of
\* this load alone: its module is the one just loaded, its surface is the widget
\* this registration call returned, and it has no surface if the call returned
\* none, also when an earlier module of that name had returned one.
C16_LastLoadedWins ==
    \A n \in Names :
        LoadedNow(n) =>
            /\ dict_has(plugins, n)
            /\ dict_get(plugins, n) = [name |-> n, load |-> nloads]
            /\ out.outcome = "returns_widget" =>
                  /\ dict_has(plugin_widgets, n)
                  /\ dict_get(plugin_widgets, n) = [plugin |-> n, serial |-> nloads]
            /\ out.outcome = "returns_none" => ~dict_has(plugin_widgets, n)

\* C18: after any sequence of loads, enables and disables, the tab container
\* holds at most one tab per plugin name.
C18_OneTabPerPlugin ==
    \A n \in Names : Cardinality(TabsOf(registry, n)) <= 1

KnownNames == Range(dict_keys(plugins))
RecordedNames == Range(dict_keys(plugin_widgets))

\* C19: every name with a recorded UI surface is a known plugin, before and
\* after every step, and no step removes a name from plugins or from
\* plugin_widgets.
C19_RegistryOnlyGrows ==
    [][/\ \A i \in DOMAIN plugin_widgets : dict_has(plugins, plugin_widgets[i].key)
       /\ \A i \in DOMAIN plugin_widgets' : dict_has(plugins', plugin_widgets'[i].key)
       /\ \A i \in DOMAIN plugins : dict_has(plugins', plugins[i].key)
       /\ \A i \in DOMAIN plugin_widgets :
             dict_has(plugin_widgets', plugin_widgets[i].key)]_vars

\* C19 witness: a plugin with a surface was disabled and is still in both
\* tables, next to a known plugin without a surface.
C19_Witness ==
    /\ out.op = "toggle_module"
    /\ ~out.checked
    /\ out.name \in RecordedNames
    /\ out.name \in KnownNames
    /\ KnownNames \ RecordedNames # { }
    /\ TabsOf(registry, out.name) = { }

\* loading file registers a module
Loads(file) == file.ext = ".py" /\ file.outcome \in {"returns_none", "returns_widget"}

\* the names of the files of listing that register a module, in listing order
RECURSIVE LoadedNames(_)
LoadedNames(listing) ==
    IF listing = << >> THEN << >>
    ELSE (IF Loads(Head(listing)) THEN <<Head(listing).name>> ELSE << >>)
             \o LoadedNames(Tail(listing))

FailedOutcomes == {"not_file", "exec_raises", "no_register", "register_raises"}

\* C14: a load that fails (the path is no file, executing the module raises,
\* the module has no register_plugin, or register_plugin raises) leaves plugins,
\* plugin_widgets and the tab container as they were; and load_plugins_from_folder
\* loads every loadable file of the folder, those listed after a failing file
\* too.
C14_FailedLoadChangesNothing ==
    /\ []((out.op = "__init__" /\ "listing" \in DOMAIN out) =>
            /\ dict_keys(plugins) = LoadedNames(out.listing)
            /\ nloads = Len(LoadedNames(out.listing))
            /\ \A i \in 1..Len(out.listing) :
                  (Loads(out.listing[i]) /\ out.listing[i].outcome = "returns_widget")
                      => dict_has(plugin_widgets, out.listing[i].name))
    /\ [][\A n \in Names, o \in FailedOutcomes :
             load_plugin_dialog([name |-> n, ext |-> ".py", outcome |-> o])
                 => UNCHANGED <<plugins, plugin_widgets, tabs, current, nloads>>]_vars

\* C14 witness: the first file of the folder failed to load (its execution
\* raised) and the two files listed after it were loaded.
C14_Witness ==
    /\ out.op = "__init__"
    /\ "listing" \in DOMAIN out
    /\ Len(out.listing) = 3
    /\ out.listing[1].ext = ".py"
    /\ out.listing[1].outcome = "exec_raises"
    /\ Loads(out.listing[2])
    /\ Loads(out.listing[3])
    /\ dict_keys(plugins) = <<out.listing[2].name, out.listing[3].name>>
    /\ Len(tabs) = 2

=============================================================================
